---- MODULE Spec2Model ----
(***************************************************************************)
(* A model of the simplecache package (src/main.go): the Cache[T] store,   *)
(* its Metrics, and the Maintain loop that expires entries, diffs the      *)
(* store against the previous snapshot and dispatches the batches to the   *)
(* registered middlewares.                                                 *)
(*                                                                         *)
(* One client goroutine calls Set/Get/GetAll/Delete/DeleteAll; each call   *)
(* holds the cache's RWMutex for its whole body, so it is one atomic step  *)
(* that is enabled only while Maintain does not hold the lock.  Maintain   *)
(* runs as its own goroutine; its tick is split at every point where       *)
(* another goroutine or the clock can be observed to interleave.  Further  *)
(* goroutines that call Get at the same time share the read lock; their    *)
(* calls are split at the read and the write of the counter they bump.     *)
(***************************************************************************)
EXTENDS Integers, Sequences, FiniteSets, TLC

VARIABLES
    data,               \* c.data: key -> Item (a function on the keys present)
    prev,               \* c.prev: the snapshot of the previous tick
    updates,            \* c.updates: the created/updated/deleted batches
    Metrics,            \* c.Metrics: hits, misses, items, memoryUsageBytes
    compareFunc,        \* c.compareFunc, set by Equals
    now,                \* the wall clock read by time.Now()
    mpc,                \* where the Maintain goroutine is
    lock,               \* holder of the RWMutex: "none" or "maintain"
    todo,               \* keys the current range loop of Maintain has not visited
    processedDeletions, \* Maintain's local set of keys removed by the expire pass
    calls,              \* middleware invocations of the current tick, in order
    stoppers,           \* where each goroutine that calls Stop is
    ret,                \* what the call made in the last step returned
    shadow,             \* what the client last did to each key (history)
    since,              \* mutations of each key since Maintain last released
                        \* the lock: "none", "one" or "many" (history)
    track,              \* whether this program's run keeps `since`
    registered,         \* how many middlewares each On... registration list holds
    gets,               \* how many calls of Get returned found / not found
                        \* (history)
    interval,           \* c.interval, set by WithInterval
    reenter,            \* whether the registered middlewares call the cache
    getters             \* where each goroutine that calls Get beside the
                        \* client is, and what it holds

vars == <<data, prev, updates, Metrics, compareFunc, now, mpc, lock, todo,
          processedDeletions, calls, stoppers, ret, shadow, since, track,
          registered, gets, interval, reenter, getters>>

\* what is fixed once the cache is configured
configVars == <<compareFunc, track, registered, interval, reenter>>

----------------------------------------------------------------------------
(* Bounds of the model *)

\* the clock runs from 0 to MaxTime
MaxTime == 2
\* the client makes at most MaxGets calls of Get
MaxGets == 1
\* middlewares a program registers per category, when it registers any
NumMw == 2

Keys == {"a", "b"}
\* the goroutines that call Stop
StopCallers == {"s1", "s2"}
\* the goroutines that call Get at the same time
GetCallers == {"g1", "g2"}
Values == {1, 2}
\* the expiry a client passes to Set: none (the zero time.Time) or instant 1,
\* which is ahead of the clock at 0, equal to it at 1 and behind it from 2 on
ExpiryTimes == {0, 1}

\* the zero value of T returned by Get on a miss
Zero == 0

\* unsafe.Sizeof of Item[T], of T and of time.Time for T = TestStruct
SizeofItem == 48
SizeofValue == 24
SizeofTime == 24

----------------------------------------------------------------------------
(* Pure helpers *)

Item(v, e) == [Value |-> v, Expires |-> e]

\* item.Expires.IsZero()
IsZero(t) == t = 0

\* Before taken as "not after"
NotAfter(t, u) == t <= u

\* t.Before(u)
Before(t, u) == t < u

\* t.After(u)
After(t, u) == t > u

\* Expired without the IsZero test
ExpiredIgnoresZero(item, t) == Before(item.Expires, t)

\* the expiry test of Get and of the expire pass
Expired(item, t) == ~IsZero(item.Expires) /\ Before(item.Expires, t)

\* the equality predicates a program may pass to Equals
\* "eq" compares the whole value; "coarse" compares a field that all the
\* values of the model share, so it calls any two of them equal
CompareFuncs == {"eq", "coarse"}

\* the intervals a program may pass to WithInterval; 0 is also what c.interval
\* holds when WithInterval is never called
Intervals == {0, 1}

\* c.compareFunc(a, b)
Compare(f, a, b) ==
    IF f = "eq" THEN a = b ELSE TRUE

\* a map with key k set to item
MapSet(m, k, item) ==
    [x \in (DOMAIN m) \cup {k} |-> IF x = k THEN item ELSE m[x]]

\* delete(m, k)
MapDelete(m, k) == [x \in (DOMAIN m) \ {k} |-> m[x]]

EmptyMap == [x \in {} |-> Item(Zero, 0)]

\* the size estimate of updateMemoryUsage
ItemSize(item) == SizeofItem + SizeofValue + SizeofTime

\* c.updateMemoryUsage(item, add), on a Metrics record
updateMemoryUsage(m, item, add) ==
    IF add
    THEN [m EXCEPT !.memoryUsageBytes = @ + ItemSize(item)]
    ELSE [m EXCEPT !.memoryUsageBytes = @ - ItemSize(item)]

\* the registered middlewares of each category, in registration order
createMiddlewares == [i \in 1..registered |-> i]
updateMiddlewares == [i \in 1..registered |-> i]
deleteMiddlewares == [i \in 1..registered |-> i]
expiryMiddlewares == [i \in 1..registered |-> i]
beforeTickMiddleware == [i \in 1..registered |-> i]
afterTickMiddleware == [i \in 1..registered |-> i]

\* an entry of a batch: the value the code appends, with the key it came from
\* kept beside it (the code appends the value alone)
Entry(k, v) == [key |-> k, value |-> v]

\* the []T a create/update/delete middleware receives
BatchValues(batch) == [i \in 1..Len(batch) |-> batch[i].value]

\* the invocations of the middlewares mws of one category with one argument
Invoke(kind, mws, arg) ==
    [i \in 1..Len(mws) |-> [kind |-> kind, id |-> mws[i], arg |-> arg]]

NoRet == [op |-> "none"]

\* the client has not set the key, or has deleted it since
Absent == [op |-> "absent"]

\* a goroutine that has not called Get yet
GetterIdle == [pc |-> "idle"]

----------------------------------------------------------------------------
(* Construction *)

\* New[T](): empty maps, zeroed metrics; no goroutine has started
New ==
    /\ data = EmptyMap
    /\ prev = EmptyMap
    /\ updates = [created |-> <<>>, updated |-> <<>>, deleted |-> <<>>]
    /\ Metrics = [hits |-> 0, misses |-> 0, items |-> 0, memoryUsageBytes |-> 0]
    /\ now = 0
    /\ mpc = "idle"
    /\ lock = "none"
    /\ todo = {}
    /\ processedDeletions = {}
    /\ calls = <<>>
    /\ stoppers = [s \in StopCallers |-> "idle"]
    /\ ret = NoRet
    /\ shadow = [k \in Keys |-> Absent]
    /\ since = [k \in Keys |-> "none"]
    /\ gets = [found |-> 0, notFound |-> 0]
    /\ getters = [g \in GetCallers |-> GetterIdle]

\* New[T]().WithInterval(d).Equals(f) for a positive d and one of the
\* predicates, then NumMw registrations
\* with each of OnCreate, OnUpdate, OnDelete, OnExpiry, OnBeforeTick and
\* OnAfterTick
Init ==
    /\ New
    /\ compareFunc \in CompareFuncs
    /\ registered = NumMw
    /\ track = FALSE
    /\ interval = 1
    /\ reenter = FALSE

----------------------------------------------------------------------------
(* The calls of the cache *)

\* the process runs: no goroutine has panicked, the runtime has thrown no
\* fatal error
Running == mpc # "panicked" /\ \A g \in GetCallers : getters[g].pc # "fatal"

\* the goroutines inside Get, holding the read lock
Readers == {g \in GetCallers : getters[g].pc = "counting"}

\* c.Lock() returns
CanLock == Running /\ lock = "none" /\ Readers = {}

\* c.RLock() returns
CanRLock == Running /\ lock = "none"

\* what Maintain's loop and the other goroutines own
loopVars == <<todo, processedDeletions, calls, updates, prev, stoppers, getters>>

maintainVars == <<mpc, loopVars>>

\* `since` after the client has mutated the keys ks
Mutated(ks) ==
    IF track
    THEN [k \in Keys |-> IF k \notin ks THEN since[k]
                         ELSE IF since[k] = "none" THEN "one" ELSE "many"]
    ELSE since

\* the body of Set(key, value, expires...), whichever goroutine calls it
SetBody(key, value, expiration) ==
    /\ CanLock
    /\ LET item == Item(value, expiration)
           exists == key \in DOMAIN data
           m1 == IF exists THEN updateMemoryUsage(Metrics, data[key], FALSE)
                 ELSE Metrics
           m2 == updateMemoryUsage(m1, item, TRUE)
           d2 == MapSet(data, key, item)
       IN /\ data' = d2
          /\ Metrics' = [m2 EXCEPT !.items = Cardinality(DOMAIN d2)]
          /\ shadow' = [shadow EXCEPT ![key] =
                           [op |-> "set", value |-> value, expires |-> expiration]]
    /\ since' = Mutated({key})
    /\ ret' = NoRet
    /\ UNCHANGED <<loopVars, configVars, now, lock, gets>>

\* Set counting its calls in Metrics["items"] instead of taking len(c.data)
SetCountsCalls(key, value, expiration) ==
    /\ CanLock
    /\ LET item == Item(value, expiration)
           exists == key \in DOMAIN data
           m1 == IF exists THEN updateMemoryUsage(Metrics, data[key], FALSE)
                 ELSE Metrics
           m2 == updateMemoryUsage(m1, item, TRUE)
           d2 == MapSet(data, key, item)
       IN /\ data' = d2
          /\ Metrics' = [m2 EXCEPT !.items = @ + 1]
          /\ shadow' = [shadow EXCEPT ![key] =
                           [op |-> "set", value |-> value, expires |-> expiration]]
    /\ since' = Mutated({key})
    /\ ret' = NoRet
    /\ UNCHANGED <<maintainVars, configVars, now, lock, gets>>

\* Set without the subtraction of the size of the item it overwrites
SetKeepsOldSize(key, value, expiration) ==
    /\ CanLock
    /\ LET item == Item(value, expiration)
           exists == key \in DOMAIN data
           m1 == Metrics
           m2 == updateMemoryUsage(m1, item, TRUE)
           d2 == MapSet(data, key, item)
       IN /\ data' = d2
          /\ Metrics' = [m2 EXCEPT !.items = Cardinality(DOMAIN d2)]
          /\ shadow' = [shadow EXCEPT ![key] =
                           [op |-> "set", value |-> value, expires |-> expiration]]
    /\ since' = Mutated({key})
    /\ ret' = NoRet
    /\ UNCHANGED <<maintainVars, configVars, now, lock, gets>>

\* the client calls Set(key, value, expires...)
Set(key, value, expiration) ==
    SetBody(key, value, expiration) /\ UNCHANGED mpc

\* the pair Get returns
GetResult(key) ==
    IF key \notin DOMAIN data \/ Expired(data[key], now)
    THEN [value |-> Zero, found |-> FALSE]
    ELSE [value |-> data[key].Value, found |-> TRUE]

\* the body of Get(key) when no other goroutine is inside Get
GetBody(key) ==
    /\ CanRLock
    /\ Readers = {}
    /\ Metrics.hits + Metrics.misses < MaxGets
    /\ LET r == GetResult(key)
       IN /\ Metrics' = IF r.found
                        THEN [Metrics EXCEPT !.hits = @ + 1]
                        ELSE [Metrics EXCEPT !.misses = @ + 1]
          /\ ret' = [op |-> "Get", key |-> key, value |-> r.value,
                     found |-> r.found]
          /\ gets' = IF r.found
                     THEN [gets EXCEPT !.found = @ + 1]
                     ELSE [gets EXCEPT !.notFound = @ + 1]
    /\ UNCHANGED <<loopVars, data, configVars, now, lock, shadow, since>>

\* the client calls Get(key)
Get(key) == GetBody(key) /\ UNCHANGED mpc

\* the keys whose values GetAll collects
GetAllKeys ==
    {k \in DOMAIN data :
        IsZero(data[k].Expires) \/ After(data[k].Expires, now)}

\* the body of GetAll(); the slice it returns is in the order of the map's
\* range, which is unspecified: the result is kept as the collected values
\* by key
GetAllBody ==
    /\ CanRLock
    /\ ret' = [op |-> "GetAll", keys |-> GetAllKeys,
               values |-> [k \in GetAllKeys |-> data[k].Value]]
    /\ UNCHANGED <<loopVars, data, Metrics, configVars, now, lock, shadow,
                   since, gets>>

\* the client calls GetAll()
GetAll == GetAllBody /\ UNCHANGED mpc

\* the body of Delete(key)
DeleteBody(key) ==
    /\ CanLock
    /\ IF key \in DOMAIN data
       THEN LET d2 == MapDelete(data, key)
                m1 == updateMemoryUsage(Metrics, data[key], FALSE)
            IN /\ data' = d2
               /\ Metrics' = [m1 EXCEPT !.items = Cardinality(DOMAIN d2)]
       ELSE UNCHANGED <<data, Metrics>>
    /\ shadow' = [shadow EXCEPT ![key] = Absent]
    /\ since' = Mutated({key} \cap DOMAIN data)
    /\ ret' = NoRet
    /\ UNCHANGED <<loopVars, configVars, now, lock, gets>>

\* the client calls Delete(key)
Delete(key) == DeleteBody(key) /\ UNCHANGED mpc

\* the body of DeleteAll()
DeleteAllBody ==
    /\ CanLock
    /\ data' = EmptyMap
    /\ Metrics' = [Metrics EXCEPT !.memoryUsageBytes = 0, !.items = 0]
    /\ shadow' = [k \in Keys |-> Absent]
    /\ since' = Mutated(DOMAIN data)
    /\ ret' = NoRet
    /\ UNCHANGED <<loopVars, configVars, now, lock, gets>>

\* the client calls DeleteAll()
DeleteAll == DeleteAllBody /\ UNCHANGED mpc

\* a step of Maintain or of the clock is no call of the client
NoCall == ret' = NoRet /\ UNCHANGED <<shadow, stoppers, gets, getters>>

\* ... and it is not the step that releases the lock
NoCallNoLock == NoCall /\ UNCHANGED since

\* time passes
Clock ==
    /\ now < MaxTime
    /\ now' = now + 1
    /\ UNCHANGED <<data, prev, updates, Metrics, configVars, mpc, lock, todo,
                   processedDeletions, calls>>
    /\ NoCallNoLock

----------------------------------------------------------------------------
(* The Maintain goroutine *)

\* the middlewares mws are registered and call the cache when they run
Reentering(mws) == reenter /\ Len(mws) > 0

\* go c.Maintain(): time.NewTicker panics on an interval that is not
\* positive; otherwise the ticker is created and the loop waits in select
MaintainStart ==
    /\ mpc = "idle"
    /\ mpc' = IF interval <= 0 THEN "panicked" ELSE "select"
    /\ UNCHANGED <<data, prev, updates, Metrics, configVars, now, lock, todo,
                   processedDeletions, calls>>
    /\ NoCallNoLock

\* case <-ticker.C: the before-tick middlewares run, no lock held
TickBegin ==
    /\ mpc = "select"
    /\ calls' = calls \o Invoke("beforeTick", beforeTickMiddleware, <<>>)
    /\ mpc' = IF Reentering(beforeTickMiddleware) THEN "beforeCallback"
              ELSE "lock"
    /\ UNCHANGED <<data, prev, updates, Metrics, configVars, now, lock, todo,
                   processedDeletions>>
    /\ NoCallNoLock

\* AcquireLock without c.Lock()
AcquireLockTakesNoLock ==
    /\ mpc = "lock"
    /\ Running
    /\ processedDeletions' = {}
    /\ todo' = DOMAIN data
    /\ mpc' = "expire"
    /\ UNCHANGED <<data, prev, updates, Metrics, configVars, now, calls, lock>>
    /\ NoCallNoLock

\* c.Lock(); processedDeletions := make(...); the expire loop starts its range
AcquireLock ==
    /\ mpc = "lock"
    /\ CanLock
    /\ lock' = "maintain"
    /\ processedDeletions' = {}
    /\ todo' = DOMAIN data
    /\ mpc' = "expire"
    /\ UNCHANGED <<data, prev, updates, Metrics, configVars, now, calls>>
    /\ NoCallNoLock

\* one iteration of "Remove expired items".  An expiry middleware that calls
\* the cache is entered with the write lock held, before the entry is
\* deleted: the iteration stays there until that call returns.
ExpireStep(key) ==
    /\ mpc = "expire"
    /\ key \in todo
    /\ LET item == data[key]
       IN IF Expired(item, now)
          THEN LET d2 == MapDelete(data, key)
                   m1 == updateMemoryUsage(Metrics, item, FALSE)
               IN /\ updates' = [updates EXCEPT !.deleted =
                                    Append(@, Entry(key, item.Value))]
                  /\ calls' = calls \o
                        Invoke("expiry", expiryMiddlewares, <<key, item>>)
                  /\ IF Reentering(expiryMiddlewares)
                     THEN /\ mpc' = "expiryCallback"
                          /\ UNCHANGED <<todo, data, Metrics,
                                         processedDeletions>>
                     ELSE /\ todo' = todo \ {key}
                          /\ data' = d2
                          /\ Metrics' =
                                [m1 EXCEPT !.items = Cardinality(DOMAIN d2)]
                          /\ processedDeletions' =
                                processedDeletions \cup {key}
                          /\ UNCHANGED mpc
          ELSE /\ todo' = todo \ {key}
               /\ UNCHANGED <<updates, calls, data, Metrics,
                              processedDeletions, mpc>>
    /\ UNCHANGED <<prev, configVars, now, lock>>
    /\ NoCallNoLock

\* the expire loop is over; the created/updated loop starts its range
ExpireDone ==
    /\ mpc = "expire"
    /\ todo = {}
    /\ todo' = DOMAIN data
    /\ mpc' = "diff"
    /\ UNCHANGED <<data, prev, updates, Metrics, configVars, now, lock,
                   processedDeletions, calls>>
    /\ NoCallNoLock

\* DiffKey with the lookup made in c.data instead of c.prev: every key is
\* found and compared with itself
DiffKeyLooksInData(u, key) ==
    IF key \notin DOMAIN data
    THEN [u EXCEPT !.created = Append(@, Entry(key, data[key].Value))]
    ELSE IF ~Compare(compareFunc, data[key].Value, data[key].Value)
         THEN [u EXCEPT !.updated = Append(@, Entry(key, data[key].Value))]
         ELSE u

\* DiffKey with the values compared by == instead of c.compareFunc
DiffKeyComparesRaw(u, key) ==
    IF key \notin DOMAIN prev
    THEN [u EXCEPT !.created = Append(@, Entry(key, data[key].Value))]
    ELSE IF data[key].Value # prev[key].Value
         THEN [u EXCEPT !.updated = Append(@, Entry(key, data[key].Value))]
         ELSE u

\* DiffKey without its else: a key that is not in c.prev is also compared
\* with the zero Item the failed lookup returned
DiffKeyNoElse(u, key) ==
    LET u1 == IF key \notin DOMAIN prev
              THEN [u EXCEPT !.created = Append(@, Entry(key, data[key].Value))]
              ELSE u
        old == IF key \in DOMAIN prev THEN prev[key].Value ELSE Zero
    IN IF ~Compare(compareFunc, data[key].Value, old)
       THEN [u1 EXCEPT !.updated = Append(@, Entry(key, data[key].Value))]
       ELSE u1

\* the batches after the created/updated loop has looked at key
DiffKey(u, key) ==
    IF key \notin DOMAIN prev
    THEN [u EXCEPT !.created = Append(@, Entry(key, data[key].Value))]
    ELSE IF ~Compare(compareFunc, data[key].Value, prev[key].Value)
         THEN [u EXCEPT !.updated = Append(@, Entry(key, data[key].Value))]
         ELSE u

\* one iteration of "Check for created or updated records"; the call of a
\* nil c.compareFunc, made for a key that c.prev holds, panics
DiffStep(key) ==
    /\ mpc = "diff"
    /\ key \in todo
    /\ IF key \in DOMAIN prev /\ compareFunc = "nil"
       THEN /\ mpc' = "panicked"
            /\ UNCHANGED <<todo, updates>>
       ELSE /\ todo' = todo \ {key}
            /\ updates' = DiffKey(updates, key)
            /\ UNCHANGED mpc
    /\ UNCHANGED <<data, prev, Metrics, configVars, now, lock,
                   processedDeletions, calls>>
    /\ NoCallNoLock

\* the created/updated loop is over; the deleted loop starts its range
DiffDone ==
    /\ mpc = "diff"
    /\ todo = {}
    /\ todo' = DOMAIN prev
    /\ mpc' = "deleted"
    /\ UNCHANGED <<data, prev, updates, Metrics, configVars, now, lock,
                   processedDeletions, calls>>
    /\ NoCallNoLock

\* DeletedKey with the test of processedDeletions inverted
DeletedKeyOnlyProcessed(u, key) ==
    IF key \notin DOMAIN data /\ key \in processedDeletions
    THEN [u EXCEPT !.deleted = Append(@, Entry(key, prev[key].Value))]
    ELSE u

\* DeletedKey without the test of processedDeletions
DeletedKeyIgnoresProcessed(u, key) ==
    IF key \notin DOMAIN data
    THEN [u EXCEPT !.deleted = Append(@, Entry(key, prev[key].Value))]
    ELSE u

\* DeletedKey with the lookup in c.data inverted: it reports the keys that
\* are still in the store
DeletedKeyReportsPresent(u, key) ==
    IF key \in DOMAIN data /\ key \notin processedDeletions
    THEN [u EXCEPT !.deleted = Append(@, Entry(key, prev[key].Value))]
    ELSE u

\* the batches after the deleted loop has looked at key
DeletedKey(u, key) ==
    IF key \notin DOMAIN data /\ key \notin processedDeletions
    THEN [u EXCEPT !.deleted = Append(@, Entry(key, prev[key].Value))]
    ELSE u

\* one iteration of "Check for deleted records excluding already processed"
DeletedStep(key) ==
    /\ mpc = "deleted"
    /\ key \in todo
    /\ todo' = todo \ {key}
    /\ updates' = DeletedKey(updates, key)
    /\ UNCHANGED <<data, prev, Metrics, configVars, now, mpc, lock,
                   processedDeletions, calls>>
    /\ NoCallNoLock

\* the deleted loop is over
DeletedDone ==
    /\ mpc = "deleted"
    /\ todo = {}
    /\ mpc' = "snapshot"
    /\ UNCHANGED <<data, prev, updates, Metrics, configVars, now, lock, todo,
                   processedDeletions, calls>>
    /\ NoCallNoLock

\* SnapshotOf without the make(): the entries of c.data are written over the
\* old c.prev, which keeps the keys the store has lost
SnapshotOfOverOld(d) ==
    [k \in (DOMAIN d) \cup (DOMAIN prev) |->
        IF k \in DOMAIN d THEN d[k] ELSE prev[k]]

\* the new c.prev: a fresh map holding a copy of every entry of c.data
SnapshotOf(d) == [k \in DOMAIN d |-> d[k]]

\* c.prev = make(...); for key, item := range c.data { c.prev[key] = item }
SnapshotReplace ==
    /\ mpc = "snapshot"
    /\ prev' = SnapshotOf(data)
    /\ mpc' = "unlock"
    /\ UNCHANGED <<data, updates, Metrics, configVars, now, lock, todo,
                   processedDeletions, calls>>
    /\ NoCallNoLock

\* Unlock without c.Unlock(): the dispatch starts with the lock held
UnlockKeepsLock ==
    /\ mpc = "unlock"
    /\ processedDeletions' = {}
    /\ mpc' = "dispatch"
    /\ since' = [k \in Keys |-> "none"]
    /\ UNCHANGED <<data, prev, updates, Metrics, configVars, now, todo, calls,
                   lock>>
    /\ NoCall

\* c.Unlock()
Unlock ==
    /\ mpc = "unlock"
    /\ lock' = "none"
    /\ processedDeletions' = {}
    /\ mpc' = "dispatch"
    /\ since' = [k \in Keys |-> "none"]
    /\ UNCHANGED <<data, prev, updates, Metrics, configVars, now, todo, calls>>
    /\ NoCall

\* Dispatch without the test of len(batch)
DispatchEvenIfEmpty(kind, mws, batch) ==
    Invoke(kind, mws, BatchValues(batch))

\* the invocations one dispatch block makes for a batch
Dispatch(kind, mws, batch) ==
    IF Len(batch) > 0 THEN Invoke(kind, mws, BatchValues(batch)) ELSE <<>>

\* DispatchUpdates with the delete block ahead of the create and update blocks
DispatchUpdatesDeleteFirst ==
    /\ mpc = "dispatch"
    /\ calls' = calls \o Dispatch("delete", deleteMiddlewares, updates.deleted)
                      \o Dispatch("create", createMiddlewares, updates.created)
                      \o Dispatch("update", updateMiddlewares, updates.updated)
    /\ mpc' = IF reenter /\ calls' # calls THEN "dispatchCallback" ELSE "clear"
    /\ UNCHANGED <<data, prev, updates, Metrics, configVars, now, lock, todo,
                   processedDeletions>>
    /\ NoCallNoLock

\* "Call middlewares for created, updated, and deleted records"
DispatchUpdates ==
    /\ mpc = "dispatch"
    /\ calls' = calls \o Dispatch("create", createMiddlewares, updates.created)
                      \o Dispatch("update", updateMiddlewares, updates.updated)
                      \o Dispatch("delete", deleteMiddlewares, updates.deleted)
    /\ mpc' = IF reenter /\ calls' # calls THEN "dispatchCallback" ELSE "clear"
    /\ UNCHANGED <<data, prev, updates, Metrics, configVars, now, lock, todo,
                   processedDeletions>>
    /\ NoCallNoLock

\* "Clear updates for the new tick"
ClearUpdates ==
    /\ mpc = "clear"
    /\ updates' = [created |-> <<>>, updated |-> <<>>, deleted |-> <<>>]
    /\ mpc' = "afterTick"
    /\ UNCHANGED <<data, prev, Metrics, configVars, now, lock, todo,
                   processedDeletions, calls>>
    /\ NoCallNoLock

\* the after-tick middlewares
AfterTick ==
    /\ mpc = "afterTick"
    /\ calls' = calls \o Invoke("afterTick", afterTickMiddleware, <<>>)
    /\ mpc' = IF Reentering(afterTickMiddleware) THEN "afterCallback"
              ELSE "tickEnd"
    /\ UNCHANGED <<data, prev, updates, Metrics, configVars, now, lock, todo,
                   processedDeletions>>
    /\ NoCallNoLock

\* back to the top of the for loop; the record of this tick's invocations ends
TickEnd ==
    /\ mpc = "tickEnd"
    /\ calls' = <<>>
    /\ mpc' = "select"
    /\ UNCHANGED <<data, prev, updates, Metrics, configVars, now, lock, todo,
                   processedDeletions>>
    /\ NoCallNoLock

----------------------------------------------------------------------------
(* Middlewares that call the cache *)

\* Maintain is inside the middlewares it has just invoked
CallbackStages ==
    {"beforeCallback", "expiryCallback", "dispatchCallback", "afterCallback"}

\* where Maintain goes on when those middlewares have returned; after the
\* expiry middlewares, with the rest of the iteration of the expire loop
ResumeAt(stage) ==
    CASE stage = "beforeCallback" -> "lock"
      [] stage = "expiryCallback" -> "expireRest"
      [] stage = "dispatchCallback" -> "clear"
      [] stage = "afterCallback" -> "tickEnd"

\* the call of c.Set, c.Get, c.GetAll, c.Delete or c.DeleteAll that the
\* middlewares make on Maintain's goroutine; it goes through the same lock
\* as the call of any other goroutine, and the middlewares return after it
CallbackSet(key, value, expiration) ==
    /\ mpc \in CallbackStages
    /\ SetBody(key, value, expiration)
    /\ mpc' = ResumeAt(mpc)

CallbackGet(key) ==
    /\ mpc \in CallbackStages
    /\ GetBody(key)
    /\ mpc' = ResumeAt(mpc)

CallbackGetAll ==
    /\ mpc \in CallbackStages
    /\ GetAllBody
    /\ mpc' = ResumeAt(mpc)

CallbackDelete(key) ==
    /\ mpc \in CallbackStages
    /\ DeleteBody(key)
    /\ mpc' = ResumeAt(mpc)

CallbackDeleteAll ==
    /\ mpc \in CallbackStages
    /\ DeleteAllBody
    /\ mpc' = ResumeAt(mpc)

----------------------------------------------------------------------------
(* Goroutines that call Get at the same time *)

getFrame == <<data, prev, updates, configVars, now, mpc, lock, todo,
              processedDeletions, calls, stoppers, shadow, since>>

\* c.RLock(); the lookup and the expiry test; the read of the counter that
\* c.Metrics["hits"]++ or c.Metrics["misses"]++ is about to bump
GetLoad(g, key) ==
    /\ getters[g].pc = "idle"
    /\ CanRLock
    /\ LET r == GetResult(key)
       IN getters' = [getters EXCEPT ![g] =
             [pc |-> "counting", key |-> key, value |-> r.value,
              found |-> r.found,
              read |-> IF r.found THEN Metrics.hits ELSE Metrics.misses]]
    /\ ret' = NoRet
    /\ UNCHANGED <<getFrame, Metrics, gets>>

\* the write of the counter, from the value read; c.RUnlock(); Get returns
GetStore(g) ==
    /\ getters[g].pc = "counting"
    /\ Running
    /\ LET f == getters[g]
       IN /\ Metrics' = IF f.found
                        THEN [Metrics EXCEPT !.hits = f.read + 1]
                        ELSE [Metrics EXCEPT !.misses = f.read + 1]
          /\ ret' = [op |-> "Get", key |-> f.key, value |-> f.value,
                     found |-> f.found]
          /\ gets' = IF f.found
                     THEN [gets EXCEPT !.found = @ + 1]
                     ELSE [gets EXCEPT !.notFound = @ + 1]
    /\ getters' = [getters EXCEPT ![g] = [pc |-> "done"]]
    /\ UNCHANGED getFrame

\* two goroutines are inside the assignment to the map c.Metrics at once and
\* the runtime notices: fatal error: concurrent map writes
GetFatal(g) ==
    /\ getters[g].pc = "counting"
    /\ Running
    /\ \E h \in GetCallers \ {g} : getters[h].pc = "counting"
    /\ getters' = [getters EXCEPT ![g] = [pc |-> "fatal"]]
    /\ ret' = NoRet
    /\ UNCHANGED <<getFrame, Metrics, gets>>

----------------------------------------------------------------------------
(* Stop *)

stopFrame == <<data, prev, updates, Metrics, configVars, now, lock, todo,
               processedDeletions, calls, shadow, since, gets, getters>>

\* a goroutine calls c.Stop() and waits in the send on the unbuffered stopChan
StopCall(s) ==
    /\ stoppers[s] = "idle"
    /\ stoppers' = [stoppers EXCEPT ![s] = "sending"]
    /\ ret' = NoRet
    /\ UNCHANGED <<stopFrame, mpc>>

\* StopReceive with the receive made wherever the loop is, not in select only
StopReceiveInTick(s) ==
    /\ mpc \notin {"idle", "stopped", "panicked"}
    /\ stoppers[s] = "sending"
    /\ mpc' = "stopped"
    /\ stoppers' = [stoppers EXCEPT ![s] = "done"]
    /\ ret' = NoRet
    /\ UNCHANGED stopFrame

\* case <-c.stopChan: Maintain, waiting in select, receives the value of one
\* sender and returns; that sender's Stop returns
StopReceive(s) ==
    /\ mpc = "select"
    /\ stoppers[s] = "sending"
    /\ mpc' = "stopped"
    /\ stoppers' = [stoppers EXCEPT ![s] = "done"]
    /\ ret' = NoRet
    /\ UNCHANGED stopFrame

----------------------------------------------------------------------------
(* The program *)

Mutate ==
    \/ \E k \in Keys, v \in Values, e \in ExpiryTimes : Set(k, v, e)
    \/ \E k \in Keys : Delete(k)
    \/ DeleteAll

Query == \E k \in Keys : Get(k)

Maintain ==
    \/ MaintainStart
    \/ TickBegin
    \/ AcquireLock
    \/ \E k \in Keys : ExpireStep(k)
    \/ ExpireDone
    \/ \E k \in Keys : DiffStep(k)
    \/ DiffDone
    \/ \E k \in Keys : DeletedStep(k)
    \/ DeletedDone
    \/ SnapshotReplace
    \/ Unlock
    \/ DispatchUpdates
    \/ ClearUpdates
    \/ AfterTick
    \/ TickEnd

\* A program that fills and empties the cache while Maintain runs.  Get
\* writes nothing Maintain or the mutators read (hits, misses and the caller's
\* result only), and Stop ends the loop: they are left to the specifications
\* below.
Next == Mutate \/ Maintain \/ Clock

Spec == Init /\ [][Next]_vars

\* A program that registers no middleware (as TestSetAndGet and TestMetrics
\* do), with a client that also calls Get.
InitStore ==
    /\ New
    /\ compareFunc = "eq"
    /\ registered = 0
    /\ track = FALSE
    /\ interval = 1
    /\ reenter = FALSE

NextStore == Next \/ Query

SpecStore == InitStore /\ [][NextStore]_vars

\* The program of Spec under the "eq" predicate, with goroutines that call
\* Stop.
Stopping ==
    \/ \E s \in StopCallers : StopCall(s)
    \/ \E s \in StopCallers : StopReceive(s)

NextStop == Next \/ Stopping

InitStop == Init /\ compareFunc = "eq"

SpecStop == InitStop /\ [][NextStop]_vars

\* The program of Spec under the "eq" predicate, keeping count of the
\* mutations made between two ticks.
InitCoalesce ==
    /\ New
    /\ compareFunc = "eq"
    /\ registered = NumMw
    /\ track = TRUE
    /\ interval = 1
    /\ reenter = FALSE

SpecCoalesce == InitCoalesce /\ [][Next]_vars

\* A program that registers no middleware, with a client that fills and
\* empties the cache and reads it with GetAll.
NextGetAll == Next \/ GetAll

SpecGetAll == InitStore /\ [][NextGetAll]_vars

\* A program that registers no middleware and never starts Maintain (as
\* TestMetrics does), with two goroutines that each call Get once beside the
\* client that fills and empties the cache.
Racing ==
    \/ \E g \in GetCallers, k \in Keys : GetLoad(g, k)
    \/ \E g \in GetCallers : GetStore(g)
    \/ \E g \in GetCallers : GetFatal(g)

NextRace == Mutate \/ Clock \/ Racing

SpecRace == InitStore /\ [][NextRace]_vars

\* The programs that configure the cache in every way New, WithInterval and
\* Equals allow: with or without a positive interval, with or without an
\* equality predicate.
InitConfig ==
    /\ New
    /\ compareFunc \in {"nil", "eq"}
    /\ interval \in Intervals
    /\ registered = NumMw
    /\ track = FALSE
    /\ reenter = FALSE

SpecConfig == InitConfig /\ [][Next]_vars

\* the calls that change the store or read all of it, made by middlewares
CallbackUpdates ==
    \/ \E k \in Keys, v \in Values, e \in ExpiryTimes : CallbackSet(k, v, e)
    \/ CallbackGetAll
    \/ \E k \in Keys : CallbackDelete(k)
    \/ CallbackDeleteAll

Callbacks == CallbackUpdates \/ \E k \in Keys : CallbackGet(k)

\* A program whose middlewares make every call of the cache: no other
\* goroutine calls it.
NextReenter == Maintain \/ Clock \/ Callbacks

InitReenter ==
    /\ New
    /\ compareFunc = "eq"
    /\ registered = NumMw
    /\ track = FALSE
    /\ interval = 1
    /\ reenter = TRUE

SpecReenter == InitReenter /\ [][NextReenter]_vars

\* A program whose middlewares call the cache while the client fills,
\* empties and reads it.
NextExclusive == Next \/ GetAll \/ CallbackUpdates

SpecExclusive == InitReenter /\ [][NextExclusive]_vars

----------------------------------------------------------------------------
(* Vocabulary of the properties *)

\* how many entries of a batch came from key k
Count(batch, k) == Cardinality({i \in 1..Len(batch) : batch[i].key = k})

\* the entries of a batch that came from key k are all Entry(k, v)
OnlyValue(batch, k, v) ==
    \A i \in 1..Len(batch) : batch[i].key = k => batch[i].value = v

\* key k has no entry in any batch
NoEvent(k) ==
    /\ Count(updates.created, k) = 0
    /\ Count(updates.updated, k) = 0
    /\ Count(updates.deleted, k) = 0

\* the invocations of one kind recorded in this tick, in order
CallsOf(kind) == SelectSeq(calls, LAMBDA c : c.kind = kind)

\* every middleware of mws was invoked exactly once with arg, in registration
\* order, and no other invocation of that kind was made
FiredOnceWith(kind, mws, arg) ==
    /\ Len(CallsOf(kind)) = Len(mws)
    /\ \A i \in 1..Len(mws) :
          CallsOf(kind)[i] = [kind |-> kind, id |-> mws[i], arg |-> arg]

\* the locked section has built the batches and still holds the old snapshot
BatchesBuilt == mpc = "snapshot"

\* the three dispatch blocks have run and the batches are not yet cleared
Dispatched == mpc = "clear"

\* from the end of the deleted pass to the dispatch, the batches do not change
BatchesKept ==
    mpc \in {"snapshot", "unlock", "dispatch"} => updates' = updates

----------------------------------------------------------------------------
(* C1: in every tick, a key that is in the store after the expire pass and   *)
(* not in the snapshot of the previous tick has exactly one entry in the     *)
(* created batch, carrying its current value, and none in the updated and    *)
(* deleted batches; a key of the snapshot has no entry in the created batch; *)
(* the batch reaches the dispatch unchanged, where every create middleware   *)
(* is invoked exactly once with it.                                          *)

C1_CreatedBatch ==
    BatchesBuilt =>
        \A k \in Keys :
            /\ (k \in DOMAIN data /\ k \notin DOMAIN prev) =>
                  /\ Count(updates.created, k) = 1
                  /\ OnlyValue(updates.created, k, data[k].Value)
                  /\ Count(updates.updated, k) = 0
                  /\ Count(updates.deleted, k) = 0
            /\ k \in DOMAIN prev => Count(updates.created, k) = 0

C1_CreateFired ==
    Dispatched =>
        IF Len(updates.created) > 0
        THEN FiredOnceWith("create", createMiddlewares,
                           BatchValues(updates.created))
        ELSE CallsOf("create") = <<>>

C1_Created ==
    /\ [](C1_CreatedBatch /\ C1_CreateFired)
    /\ [][BatchesKept]_vars

\* a second tick reports the new key "b" to the create middlewares and not the
\* key "a" it already knew
C1_Witness ==
    /\ Dispatched
    /\ "a" \in DOMAIN prev
    /\ Count(updates.created, "a") = 0
    /\ Count(updates.created, "b") = 1
    /\ Len(CallsOf("create")) = NumMw

----------------------------------------------------------------------------
(* C2: in every tick, a key that is both in the store (after the expire      *)
(* pass) and in the snapshot has exactly one entry in the updated batch,     *)
(* carrying its current store value, and none in the other batches, when     *)
(* the equality predicate calls the store value and the snapshot value       *)
(* unequal; it has no entry in any batch when the predicate calls them       *)
(* equal.                                                                    *)

C2_Updated ==
    BatchesBuilt =>
        \A k \in (DOMAIN data) \cap (DOMAIN prev) :
            IF ~Compare(compareFunc, data[k].Value, prev[k].Value)
            THEN /\ Count(updates.updated, k) = 1
                 /\ OnlyValue(updates.updated, k, data[k].Value)
                 /\ Count(updates.created, k) = 0
                 /\ Count(updates.deleted, k) = 0
            ELSE NoEvent(k)

\* under the coarse predicate key "a" changed its value and produced no event;
\* under "eq" it produced its one updated entry while the unchanged "b" did not
C2_Witness ==
    /\ BatchesBuilt
    /\ {"a", "b"} \subseteq (DOMAIN data) \cap (DOMAIN prev)
    /\ data["a"].Value # prev["a"].Value
    /\ data["b"].Value = prev["b"].Value
    /\ NoEvent("b")
    /\ \/ compareFunc = "coarse" /\ NoEvent("a")
       \/ compareFunc = "eq" /\ Count(updates.updated, "a") = 1

----------------------------------------------------------------------------
(* C3: if a key is in the snapshot and the client has deleted it (Delete or  *)
(* DeleteAll) and not set it again by the time the next tick takes the lock, *)
(* that tick's deleted batch has exactly one entry for the key, carrying the *)
(* value the key has in the snapshot; the batch reaches the dispatch         *)
(* unchanged, where every delete middleware is invoked exactly once with it. *)

C3_DeletedBatch ==
    BatchesBuilt =>
        \A k \in DOMAIN prev :
            shadow[k] = Absent =>
                /\ Count(updates.deleted, k) = 1
                /\ OnlyValue(updates.deleted, k, prev[k].Value)

C3_DeleteFired ==
    Dispatched =>
        IF Len(updates.deleted) > 0
        THEN FiredOnceWith("delete", deleteMiddlewares,
                           BatchValues(updates.deleted))
        ELSE CallsOf("delete") = <<>>

C3_Deleted ==
    /\ [](C3_DeletedBatch /\ C3_DeleteFired)
    /\ [][BatchesKept]_vars

\* the delete middlewares have received the one value of a key the client
\* deleted between two ticks
C3_Witness ==
    /\ Dispatched
    /\ shadow["a"] = Absent
    /\ Count(updates.deleted, "a") = 1
    /\ Len(updates.deleted) = 1
    /\ Len(CallsOf("delete")) = NumMw
    /\ CallsOf("expiry") = <<>>

----------------------------------------------------------------------------
(* C4: when the expire pass visits an entry whose expiry is set and before   *)
(* the clock, it invokes every expiry middleware exactly once with the key   *)
(* and the item, removes the entry from the store and appends its value to   *)
(* the deleted batch; an entry that is not expired is left alone.  The       *)
(* deleted pass adds no second entry for the key, and the snapshot the tick  *)
(* leaves does not hold the key, so no later tick reports the removal again. *)

\* the key the expire pass visits in this step
Visited == CHOOSE k \in todo : k \notin todo'

C4_ExpireVisit ==
    (mpc = "expire" /\ \E k \in todo : k \notin todo') =>
        LET k == Visited
            item == data[k]
        IN IF item.Expires # 0 /\ item.Expires < now
           THEN /\ k \notin DOMAIN data'
                /\ \A x \in (DOMAIN data) \ {k} :
                      x \in DOMAIN data' /\ data'[x] = data[x]
                /\ calls' = calls \o
                      [i \in 1..Len(expiryMiddlewares) |->
                          [kind |-> "expiry", id |-> expiryMiddlewares[i],
                           arg |-> <<k, item>>]]
                /\ updates' = [updates EXCEPT !.deleted =
                                  Append(@, Entry(k, item.Value))]
           ELSE /\ data' = data
                /\ calls' = calls
                /\ updates' = updates

C4_ReportedOnce ==
    /\ mpc \in {"diff", "deleted", "snapshot", "unlock"} =>
          \A k \in Keys :
              Len(SelectSeq(CallsOf("expiry"), LAMBDA c : c.arg[1] = k))
                 = IF k \in processedDeletions THEN Len(expiryMiddlewares) ELSE 0
    /\ BatchesBuilt =>
          \A k \in processedDeletions :
              /\ k \notin DOMAIN data
              /\ Count(updates.deleted, k) = 1
              /\ Count(updates.created, k) = 0
              /\ Count(updates.updated, k) = 0
    /\ mpc = "unlock" =>
          \A k \in processedDeletions : k \notin DOMAIN prev

C4_Expiry ==
    /\ []C4_ReportedOnce
    /\ [][C4_ExpireVisit]_vars

\* key "a" was in the snapshot, expired in this tick, and has its one entry in
\* the deleted batch after the deleted pass
C4_Witness ==
    /\ BatchesBuilt
    /\ "a" \in processedDeletions
    /\ "a" \in DOMAIN prev
    /\ Count(updates.deleted, "a") = 1
    /\ Len(CallsOf("expiry")) = NumMw

----------------------------------------------------------------------------
(* C5: whatever Set, Delete and DeleteAll calls were made since the previous *)
(* tick, each key has at most one entry in the three batches of a tick       *)
(* together, and which entry it has depends only on the store and the        *)
(* snapshot as the tick finds them: created with the store value for a key   *)
(* of the store that the snapshot lacks, updated with the store value for a  *)
(* key of both whose values the predicate calls unequal, deleted for a key   *)
(* the expire pass removed or that only the snapshot holds, nothing          *)
(* otherwise.                                                                *)

\* the entries of key k, each with the batch it is in
EventsOf(k) ==
    {<<"created", updates.created[i].value>> :
        i \in {j \in 1..Len(updates.created) : updates.created[j].key = k}}
    \cup {<<"updated", updates.updated[i].value>> :
        i \in {j \in 1..Len(updates.updated) : updates.updated[j].key = k}}
    \cup {<<"deleted", updates.deleted[i].value>> :
        i \in {j \in 1..Len(updates.deleted) : updates.deleted[j].key = k}}

C5_Coalesced ==
    BatchesBuilt =>
        \A k \in Keys :
            /\ Count(updates.created, k) + Count(updates.updated, k)
                  + Count(updates.deleted, k) <= 1
            /\ IF k \in DOMAIN data
               THEN IF k \notin DOMAIN prev
                    THEN EventsOf(k) = {<<"created", data[k].Value>>}
                    ELSE IF ~Compare(compareFunc, data[k].Value, prev[k].Value)
                         THEN EventsOf(k) = {<<"updated", data[k].Value>>}
                         ELSE EventsOf(k) = {}
               ELSE IF k \in processedDeletions
                    THEN \E v \in Values : EventsOf(k) = {<<"deleted", v>>}
                    ELSE IF k \in DOMAIN prev
                         THEN EventsOf(k) = {<<"deleted", prev[k].Value>>}
                         ELSE EventsOf(k) = {}

\* both keys were mutated more than once since the previous tick: "a", new to
\* the snapshot, has one created entry and "b", known to it, one updated entry
C5_Witness ==
    /\ BatchesBuilt
    /\ since["a"] = "many" /\ since["b"] = "many"
    /\ {"a", "b"} \subseteq DOMAIN data
    /\ "a" \notin DOMAIN prev /\ "b" \in DOMAIN prev
    /\ EventsOf("a") = {<<"created", data["a"].Value>>}
    /\ EventsOf("b") = {<<"updated", data["b"].Value>>}

----------------------------------------------------------------------------
(* C6: every call of Stop returns: no call is left waiting in its send once  *)
(* Maintain has returned, whether the call came after an earlier Stop or     *)
(* together with another one.  (With Maintain gone nothing receives from     *)
(* stopChan any more, so such a call waits for ever.)                        *)

C6_StopReturns ==
    \A s \in StopCallers : stoppers[s] = "sending" => mpc # "stopped"

----------------------------------------------------------------------------
(* C7: whenever no call is inside the store (every state of this model: a    *)
(* call and an iteration of the expire pass are each one step),              *)
(* Metrics["items"] is the number of entries of the store.                   *)

C7_Items == Metrics.items = Cardinality(DOMAIN data)

\* the expire pass has removed one of two entries and the count followed it
C7_Witness ==
    /\ mpc = "diff"
    /\ processedDeletions # {}
    /\ Cardinality(DOMAIN data) = 1
    /\ Metrics.items = 1

----------------------------------------------------------------------------
(* C8: memoryUsageBytes is the sum of the size estimates of the entries of   *)
(* the store: it is never negative, a key that was overwritten counts once,  *)
(* and it is 0 when the store is empty.                                      *)

RECURSIVE SumSizes(_, _)
SumSizes(d, ks) ==
    IF ks = {} THEN 0
    ELSE LET k == CHOOSE x \in ks : TRUE
         IN (SizeofItem + SizeofValue + SizeofTime) + SumSizes(d, ks \ {k})

C8_Memory ==
    /\ Metrics.memoryUsageBytes = SumSizes(data, DOMAIN data)
    /\ Metrics.memoryUsageBytes >= 0
    /\ data = EmptyMap => Metrics.memoryUsageBytes = 0

\* key "a", set more than once since the last tick, is the only entry and is
\* counted once
C8_Witness ==
    /\ since["a"] = "many"
    /\ DOMAIN data = {"a"}
    /\ "b" \in DOMAIN prev
    /\ Metrics.memoryUsageBytes = SizeofItem + SizeofValue + SizeofTime

----------------------------------------------------------------------------
(* C9: Get of a key the client last set without expiry returns the value of  *)
(* that Set and true, whatever ticks ran and whatever was done to other keys *)
(* since; Get of a key the client never set, or deleted since it last set    *)
(* it, returns the zero value and false.                                     *)

C9_GetAfterSet ==
    ret.op = "Get" =>
        /\ (shadow[ret.key].op = "set" /\ shadow[ret.key].expires = 0) =>
              (ret.found /\ ret.value = shadow[ret.key].value)
        /\ shadow[ret.key] = Absent =>
              (~ret.found /\ ret.value = Zero)

\* Get returns the value of a key that was set without expiry and has been
\* through a tick, after the clock has moved and the other key was set
C9_Witness ==
    /\ ret.op = "Get"
    /\ ret.found
    /\ shadow[ret.key].op = "set"
    /\ ret.key \in DOMAIN prev
    /\ now > 0
    /\ Cardinality(DOMAIN data) = 2

----------------------------------------------------------------------------
(* C10: Get of a key whose entry has an expiry that is set and strictly      *)
(* before the clock returns the zero value and false and adds one to misses, *)
(* although the entry is still in the store; Get of a key whose entry has no *)
(* expiry, or one that is not strictly before the clock, returns the entry's *)
(* value and true and adds one to hits.                                      *)

C10_Result ==
    (ret.op = "Get" /\ ret.key \in DOMAIN data) =>
        LET item == data[ret.key]
        IN IF item.Expires # 0 /\ item.Expires < now
           THEN ~ret.found /\ ret.value = Zero
           ELSE ret.found /\ ret.value = item.Value

C10_Counted ==
    /\ Metrics.hits = gets.found
    /\ Metrics.misses = gets.notFound

C10_LazyExpiry == C10_Result /\ C10_Counted

\* no tick has run, the expired entry is still in the store, and Get has
\* missed it
C10_Witness ==
    /\ ret.op = "Get"
    /\ mpc = "idle"
    /\ ret.key \in DOMAIN data
    /\ ~ret.found
    /\ gets.notFound = 1
    /\ Metrics.misses = 1

----------------------------------------------------------------------------
(* C11: hits counts the calls of Get that returned found and misses the      *)
(* calls that returned not found, under any interleaving of callers that     *)
(* share the read lock: once every call has returned, no increment is lost   *)
(* and hits + misses is the number of calls made.                            *)

GetsReturned == {g \in GetCallers : getters[g].pc = "done"}

C11_NoLostCount ==
    (\A g \in GetCallers : getters[g].pc \in {"idle", "done"}) =>
        /\ Metrics.hits = gets.found
        /\ Metrics.misses = gets.notFound
        /\ Metrics.hits + Metrics.misses = Cardinality(GetsReturned)

----------------------------------------------------------------------------
(* C12: Maintain started without an equality predicate, or with an interval  *)
(* that is not positive, is rejected at its start: no tick begins, no        *)
(* before-tick middleware runs, the store and the snapshot are not touched   *)
(* by it, and the failure never comes out of a tick's comparison.            *)

Misconfigured == compareFunc = "nil" \/ interval <= 0

C12_RejectedAtStart ==
    Misconfigured =>
        /\ mpc \in {"idle", "panicked"}
        /\ calls = <<>>
        /\ prev = EmptyMap
        /\ lock = "none"

----------------------------------------------------------------------------
(* C13: GetAll returns exactly the values of the entries that are not        *)
(* expired by the criterion of Get (an expiry that is set and strictly       *)
(* before the clock): a key is in the result if and only if Get of that key  *)
(* at the same instant returns found; GetAll changes neither hits nor        *)
(* misses.                                                                   *)

C13_GetAllAsGet ==
    ret.op = "GetAll" =>
        /\ ret.keys = {k \in Keys : GetResult(k).found}
        /\ \A k \in ret.keys : ret.values[k] = GetResult(k).value
        /\ Metrics.hits = gets.found
        /\ Metrics.misses = gets.notFound

----------------------------------------------------------------------------
(* C14: the create, update, delete and after-tick middlewares are invoked    *)
(* while Maintain holds no lock: a middleware of these kinds that calls Get, *)
(* GetAll, Set, Delete or DeleteAll finds the lock free, its call completes, *)
(* and the tick goes on with the step that follows the middlewares.          *)

\* from the release of the lock to the end of the tick
UnlockedStages ==
    {"dispatch", "dispatchCallback", "clear", "afterTick", "afterCallback",
     "tickEnd"}

C14_NoLockHeld ==
    /\ mpc \in UnlockedStages => lock = "none"
    /\ mpc \in {"dispatchCallback", "afterCallback"} => CanLock /\ CanRLock

\* the step that leaves the middlewares is the return of the call they made,
\* and the tick is at its next step with the lock still free
C14_Continues ==
    (mpc \in {"dispatchCallback", "afterCallback"} /\ mpc' # mpc) =>
        /\ mpc' = IF mpc = "dispatchCallback" THEN "clear" ELSE "tickEnd"
        /\ lock' = "none"
        /\ calls' = calls
        /\ updates' = updates

C14_UnlockedCallbacks == []C14_NoLockHeld /\ [][C14_Continues]_vars

\* a create, update or delete middleware has called Get, the call has returned
\* a value, and the tick is at the clearing of the batches
C14_Witness ==
    /\ mpc = "clear"
    /\ ret.op = "Get"
    /\ ret.found
    /\ Len(calls) > registered

----------------------------------------------------------------------------
(* C15: while a tick is in its locked section (expire pass, expiry           *)
(* middlewares, created/updated pass, deleted pass, snapshot replacement),   *)
(* no Get, GetAll, Set, Delete or DeleteAll of another caller reads or       *)
(* changes the store, the snapshot or the metrics: none completes, also not  *)
(* while an expiry middleware runs; an expiry middleware that calls the      *)
(* cache never returns.                                                      *)

\* from c.Lock() to c.Unlock()
LockedStages ==
    {"expire", "expiryCallback", "diff", "deleted", "snapshot", "unlock"}

C15_Held ==
    mpc \in LockedStages => lock = "maintain" /\ ~CanLock /\ ~CanRLock

\* a step taken inside the locked section is a step of Maintain or of the
\* clock: no call has returned, and the store changes by the removal of an
\* expired entry only
C15_NoOtherCaller ==
    mpc \in LockedStages =>
        /\ ret' = NoRet
        /\ shadow' = shadow
        /\ gets' = gets
        /\ Metrics'.hits = Metrics.hits /\ Metrics'.misses = Metrics.misses
        /\ data' # data =>
              /\ mpc = "expire"
              /\ \E k \in DOMAIN data :
                    Expired(data[k], now) /\ data' = MapDelete(data, k)
        /\ prev' # prev => mpc = "snapshot"

\* the expiry middleware that called the cache stays inside that call
C15_NeverReturns ==
    mpc = "expiryCallback" =>
        /\ mpc' = "expiryCallback"
        /\ lock' = "maintain"
        /\ UNCHANGED <<data, prev, Metrics, updates, calls>>

----------------------------------------------------------------------------
(* C16: a Stop is observed between ticks only: a tick that has begun runs    *)
(* all its steps, through the after-tick middlewares, before the loop can    *)
(* receive from stopChan; once the loop has received, Maintain has returned, *)
(* no tick begins and no middleware is invoked any more.                     *)

\* Maintain has returned: the last tick is complete
C16_StoppedBetweenTicks ==
    mpc = "stopped" =>
        /\ calls = <<>>
        /\ lock = "none"
        /\ todo = {}
        /\ updates = [created |-> <<>>, updated |-> <<>>, deleted |-> <<>>]
        /\ \E s \in StopCallers : stoppers[s] = "done"

C16_StopStep ==
    \* a Stop returns only by the receive in select, which ends the loop
    /\ (\E s \in StopCallers : stoppers[s] # "done" /\ stoppers'[s] = "done")
          => mpc = "select" /\ mpc' = "stopped"
    \* the loop ends only there
    /\ (mpc # "stopped" /\ mpc' = "stopped") => mpc = "select"
    \* and then nothing of Maintain happens again
    /\ mpc = "stopped" =>
          /\ mpc' = "stopped"
          /\ UNCHANGED <<calls, updates, prev, lock, todo>>

C16_Cancellation == []C16_StoppedBetweenTicks /\ [][C16_StopStep]_vars

\* the loop has run a tick that took a snapshot, then received a Stop sent
\* while another goroutine's Stop is still waiting
C16_Witness ==
    /\ mpc = "stopped"
    /\ prev # EmptyMap
    /\ stoppers["s1"] = "done"
    /\ stoppers["s2"] = "sending"

----------------------------------------------------------------------------
(* C17: within every tick the steps come in this order: the before-tick      *)
(* middlewares (no lock held), the lock, the expire pass, the created /      *)
(* updated pass, the deleted pass, the snapshot replacement, the unlock, the *)
(* dispatch of the create, then update, then delete batches, the clearing of *)
(* the batches, the after-tick middlewares; the before-tick middlewares run  *)
(* before the tick changes the store and the after-tick middlewares after    *)
(* every create, update and delete middleware, on every tick.                *)

\* the place of each kind of invocation in a tick
KindRank(kind) ==
    CASE kind = "beforeTick" -> 0
      [] kind = "expiry" -> 1
      [] kind = "create" -> 2
      [] kind = "update" -> 3
      [] kind = "delete" -> 4
      [] kind = "afterTick" -> 5

\* the steps of a tick, each with the step that follows it
TickOrder ==
    {<<"idle", "select">>, <<"select", "lock">>, <<"lock", "expire">>,
     <<"expire", "diff">>, <<"diff", "deleted">>, <<"deleted", "snapshot">>,
     <<"snapshot", "unlock">>, <<"unlock", "dispatch">>,
     <<"dispatch", "clear">>, <<"clear", "afterTick">>,
     <<"afterTick", "tickEnd">>, <<"tickEnd", "select">>}

C17_CallsInOrder ==
    /\ \A i, j \in 1..Len(calls) :
          i < j => KindRank(calls[i].kind) <= KindRank(calls[j].kind)
    /\ mpc \notin {"idle", "select"} =>
          FiredOnceWith("beforeTick", beforeTickMiddleware, <<>>)
    /\ IF mpc = "tickEnd"
       THEN FiredOnceWith("afterTick", afterTickMiddleware, <<>>)
       ELSE CallsOf("afterTick") = <<>>
    /\ mpc \in {"idle", "select", "lock"} => CallsOf("expiry") = <<>>
    /\ mpc \notin {"clear", "afterTick", "tickEnd"} =>
          /\ CallsOf("create") = <<>>
          /\ CallsOf("update") = <<>>
          /\ CallsOf("delete") = <<>>
    /\ lock = "maintain" <=>
          mpc \in {"expire", "diff", "deleted", "snapshot", "unlock"}

C17_Step ==
    /\ mpc' # mpc => <<mpc, mpc'>> \in TickOrder
    /\ lock' # lock => mpc \in {"lock", "unlock"}
    /\ (lock = "maintain" /\ data' # data) => mpc = "expire"
    /\ (updates'.created # updates.created \/ updates'.updated # updates.updated)
          => mpc \in {"diff", "clear"}
    /\ updates'.deleted # updates.deleted
          => mpc \in {"expire", "deleted", "clear"}
    /\ prev' # prev => mpc = "snapshot"
    /\ (calls' # calls /\ calls' # <<>>) =>
          mpc \in {"select", "expire", "dispatch", "afterTick"}

C17_TickOrder == []C17_CallsInOrder /\ [][C17_Step]_vars

\* a tick that expired one key and found another one new is at its end: the
\* middlewares ran as before-tick, expiry, create, delete, after-tick
C17_Witness ==
    /\ mpc = "tickEnd"
    /\ registered > 0
    /\ Len(CallsOf("expiry")) = registered
    /\ Len(CallsOf("create")) = registered
    /\ Len(CallsOf("delete")) = registered
    /\ CallsOf("update") = <<>>
    /\ Len(calls) = 5 * registered

----------------------------------------------------------------------------
(* C18: the snapshot changes at the end of a tick's locked section only:     *)
(* when the tick releases the lock the snapshot has the keys and the items   *)
(* of the store as the expire pass left it, and no Set, Delete, DeleteAll    *)
(* or read of the store made between ticks changes it: it is a copy of the   *)
(* store, not the store's map.                                               *)

C18_CopyAtUnlock == mpc = "unlock" => prev = data

C18_SnapshotStep ==
    \* the snapshot is replaced by the store's content, as a whole
    /\ prev' # prev =>
          /\ mpc = "snapshot"
          /\ lock = "maintain"
          /\ prev' = data
          /\ data' = data
    \* a call of the client leaves it alone, also one that changes the store
    /\ (lock = "none" /\ (data' # data \/ ret' # NoRet \/ shadow' # shadow))
          => prev' = prev

----------------------------------------------------------------------------
(* C19: in each tick, for each of the created, updated and deleted batches:  *)
(* if the batch is not empty, every middleware registered for it is invoked  *)
(* exactly once, in registration order, with the whole batch; if it is       *)
(* empty, none is invoked; the three batches are empty again before the next *)
(* tick starts, so no value is delivered again by a later tick.              *)

\* the invocations of one category, given its middlewares and its batch
C19_Fired(kind, mws, batch) ==
    IF Len(batch) > 0
    THEN /\ FiredOnceWith(kind, mws, BatchValues(batch))
         /\ \A i, j \in 1..Len(CallsOf(kind)) :
               i < j => CallsOf(kind)[i].id < CallsOf(kind)[j].id
    ELSE CallsOf(kind) = <<>>

C19_Cleared ==
    mpc \in {"idle", "select", "lock", "afterTick", "tickEnd"} =>
        updates = [created |-> <<>>, updated |-> <<>>, deleted |-> <<>>]

C19_BatchDispatch ==
    /\ Dispatched =>
          /\ C19_Fired("create", createMiddlewares, updates.created)
          /\ C19_Fired("update", updateMiddlewares, updates.updated)
          /\ C19_Fired("delete", deleteMiddlewares, updates.deleted)
    /\ C19_Cleared

\* a tick has dispatched a created batch and a deleted batch of one value
\* each, to all of their middlewares, and nothing to the update middlewares
C19_Witness ==
    /\ Dispatched
    /\ registered > 0
    /\ Len(updates.created) = 1
    /\ Len(updates.deleted) = 1
    /\ Len(updates.updated) = 0
    /\ Len(CallsOf("create")) = registered
    /\ Len(CallsOf("delete")) = registered
    /\ CallsOf("update") = <<>>

----------------------------------------------------------------------------
(* C20: a value is appended to a tick's deleted batch only for a key that    *)
(* is in the snapshot at the start of the tick; a key that is Set with an    *)
(* expiry and expires before any tick has seen it produces no deleted entry. *)

C20_DeletedWasSeen ==
    BatchesBuilt =>
        \A i \in 1..Len(updates.deleted) :
            updates.deleted[i].key \in DOMAIN prev

(* C20, as the code has it: a tick's deleted batch has an entry for a key    *)
(* only if the tick's expire pass removed that key from the store, whether   *)
(* the snapshot holds it or not, or if the key is in the snapshot at the     *)
(* start of the tick and no longer in the store; a key that is Set with an   *)
(* expiry and expires before any tick has seen it has its deleted entry,     *)
(* with no created entry in this or any earlier tick.                        *)

C20_DeletedSource ==
    BatchesBuilt =>
        \A k \in Keys :
            /\ Count(updates.deleted, k) > 0 =>
                  \/ k \in processedDeletions
                  \/ k \in DOMAIN prev /\ k \notin DOMAIN data
            /\ (k \in processedDeletions /\ k \notin DOMAIN prev) =>
                  /\ Count(updates.deleted, k) = 1
                  /\ Count(updates.created, k) = 0

\* the first tick, with an empty snapshot, has put into its deleted batch the
\* value of a key that expired before it ran
C20_Witness ==
    /\ BatchesBuilt
    /\ prev = EmptyMap
    /\ "a" \in processedDeletions
    /\ Count(updates.deleted, "a") = 1
    /\ Count(updates.created, "a") = 0

====
